---- MODULE Spec2Model ----
(***************************************************************************)
(* Model of backend/NYT/nyt_library_builder.py: LibraryBuilder, the        *)
(* backward walk over the weekly overview pages, the ISBN cache hydrated   *)
(* from the CSV export, the in-memory buffer and its final flush.          *)
(*                                                                         *)
(* One process invocation is: __init__ (with load_state), run() (the       *)
(* while loop over fetch_overview / process_week), save_to_csv.  The CSV   *)
(* file outlives the process, so successive invocations are modelled as    *)
(* successive runs over the same `store`.                                  *)
(*                                                                         *)
(* Dates are ISO strings in the program; they are modelled as positive     *)
(* integers (their chronological rank), with NoDate for None/"".           *)
(***************************************************************************)
EXTENDS Integers, Sequences, FiniteSets, TLC

\* ---------------------------------------------------------------- bounds
MaxRuns == 2
MaxDepth == 3
MaxRetries == 1

\* ------------------------------------------------------------- constants
NoDate == 0
NoIsbn == ""

VARIABLES
    store,            \* OUTPUT_FILE: [exists, header, rows]
    pc,               \* position of the process
    max_weeks,        \* self.max_weeks
    seen_isbns,       \* self.seen_isbns
    library_data,     \* self.library_data (the pending buffer)
    is_running,       \* self.is_running
    resume_date,      \* self.resume_date
    next_date,        \* run(): next_date
    weeks_processed,  \* run(): weeks_processed
    data,             \* run(): data, the value fetch_overview returned
    count_new,        \* process_week(): count_new of the last call
    \* history of the current run (not program state)
    run_no,           \* number of process invocations started
    load_result,      \* how load_state ended: none, missing, ok, failed
    hydrated,         \* seen_isbns as load_state left it
    cursors,          \* the cursors passed to fetch_overview, in order
    outcome,          \* classification of the fetch whose result is in hand
    failures,         \* fetches of this run that returned no data (retry bound)
    got404,           \* a 404 was received in this run
    interrupted,      \* SIGINT was received in this run
    processed,        \* the pages handed to process_week, in order
    extracted,        \* every record process_week created in this run
    stop_reason,      \* why the while loop ended
    save_result,      \* how save_to_csv ended: none, noop, ok, failed
    flushed,          \* pages processed in an earlier run whose flush succeeded
    late_fetch,       \* a fetch was started in this run with is_running false
    exit_statuses     \* the exit status of every process that has ended

vars == << store, pc, max_weeks, seen_isbns, library_data, is_running,
           resume_date, next_date, weeks_processed, data, count_new,
           run_no, load_result, hydrated, cursors, outcome, failures, got404,
           interrupted, processed, extracted, stop_reason, save_result, flushed,
           late_fetch, exit_statuses >>

\* ------------------------------------------------------------ upstream
\* The chain of overview pages the API serves.  A page is the decoded JSON:
\* results.bestsellers_date, results.previous_published_date, results.lists,
\* each list with list_name and the primary_isbn13 of its books.
PageP0 ==
    [ has_data |-> TRUE, bestsellers_date |-> 3, previous_published_date |-> 2,
      lists |-> << [list_name |-> "fiction",    books |-> << "A", "B" >>],
                   [list_name |-> "combined",   books |-> << "A" >>] >> ]

PageP1 ==
    [ has_data |-> TRUE, bestsellers_date |-> 2, previous_published_date |-> 1,
      lists |-> << [list_name |-> "fiction",    books |-> << "B" >>],
                   [list_name |-> "nonfiction", books |-> << "C" >>] >> ]

PageP2 ==
    [ has_data |-> TRUE, bestsellers_date |-> 1, previous_published_date |-> NoDate,
      lists |-> << [list_name |-> "fiction",    books |-> << NoIsbn, "A" >>] >> ]

\* A decoded body whose results carry a list but neither bestsellers_date
\* nor previous_published_date (the .get() calls of lines 108-109 yield None).
PageUndated ==
    [ has_data |-> TRUE, bestsellers_date |-> NoDate, previous_published_date |-> NoDate,
      lists |-> << [list_name |-> "fiction",    books |-> << "D" >>] >> ]

\* The empty dict fetch_overview returns on every failure.
EmptyData ==
    [ has_data |-> FALSE, bestsellers_date |-> NoDate, previous_published_date |-> NoDate,
      lists |-> << >> ]

\* The page the API serves for a cursor; an absent cursor is the most recent.
Upstream(date_str) ==
    CASE date_str = NoDate -> PageP0
      [] date_str = 3      -> PageP0
      [] date_str = 2      -> PageP1
      [] date_str = 1      -> PageP2
      [] OTHER             -> EmptyData

\* ------------------------------------------------------- the CSV store
\* OUTPUT_FILE: whether it exists, whether its first line is the header row
\* save_to_csv writes, and its data lines (one per record written).
NoFile == [exists |-> FALSE, header |-> FALSE, rows |-> << >>]

\* A row as csv.DictReader yields it when no column of that name exists.
BlankRow == [isbn13 |-> NoIsbn, nyt_list_category |-> "", first_seen_date |-> NoDate]

\* csv.DictReader(f): the first line names the columns.  With the header row
\* in place every data line is a row under the column names; without it the
\* first data line is consumed as the column names and the remaining lines
\* have no "isbn13" and no "first_seen_date" column.
DictRows(s) ==
    IF s.header THEN s.rows
    ELSE [i \in 1..(Len(s.rows) - 1) |-> BlankRow]

\* list.sort() on the collected dates (insertion into an ascending list).
RECURSIVE Insert(_, _)
Insert(d, sorted) ==
    IF sorted = << >> THEN << d >>
    ELSE IF d <= Head(sorted) THEN << d >> \o sorted
    ELSE << Head(sorted) >> \o Insert(d, Tail(sorted))

RECURSIVE Sort(_)
Sort(dates) ==
    IF dates = << >> THEN << >> ELSE Insert(Head(dates), Sort(Tail(dates)))

\* A variant that keeps the list in file order (the sort left out).
UnsortedDates(dates) == dates

\* dates.sort() (line 63).
SortedDates(dates) == Sort(dates)

\* The isbn13 values added to seen_isbns by the first k rows (lines 52-56).
ScannedIsbns(rows, k) ==
    { rows[i].isbn13 : i \in { j \in 1..k : rows[j].isbn13 # NoIsbn } }

\* The dates appended to `dates` by the first k rows (lines 53, 57-58).
RECURSIVE ScannedDates(_, _)
ScannedDates(rows, k) ==
    IF k = 0 THEN << >>
    ELSE LET before == ScannedDates(rows, k - 1)
         IN  IF rows[k].first_seen_date # NoDate
             THEN Append(before, rows[k].first_seen_date)
             ELSE before

\* The cache a read that raised after k rows leaves behind: the except
\* clause (lines 69-70) only logs, the identifiers already added stay.
CacheAfterFailure(rows, k) == ScannedIsbns(rows, k)

\* A variant that sets the resume point from the rows read before the failure.
ResumeFromPartialScan(rows, k) ==
    LET dates == ScannedDates(rows, k)
    IN  IF dates # << >> THEN Sort(dates)[1] ELSE NoDate

\* resume_date after a read that raised: lines 62-64 are inside the try
\* block, after the loop, so the value __init__ set (line 33) stays.
ResumeAfterFailure(rows, k) == NoDate

\* load_state(): `fails` with `k` is a read that raises after k rows were
\* iterated (k = 0: open() itself, or the header read, raised).
LoadState(s, fails, k) ==
    IF ~s.exists
    THEN [seen |-> {}, resume |-> NoDate, result |-> "missing"]
    ELSE LET rows == DictRows(s) IN
         IF fails
         THEN [seen   |-> CacheAfterFailure(rows, k),
               resume |-> ResumeAfterFailure(rows, k),
               result |-> "failed"]
         ELSE LET dates == ScannedDates(rows, Len(rows)) IN
              [seen   |-> ScannedIsbns(rows, Len(rows)),
               resume |-> IF dates # << >> THEN SortedDates(dates)[1] ELSE NoDate,
               result |-> "ok"]

\* ---------------------------------------------------------- process_week
\* The dict appended to library_data (lines 123-134), with the fields the
\* traversal depends on.
Entry(isbn, list_name, current_date) ==
    [isbn13 |-> isbn, nyt_list_category |-> list_name, first_seen_date |-> current_date]

\* A variant of the duplicate test that only skips missing identifiers.
SkipMissingOnly(isbn, seen) == isbn = NoIsbn

\* A variant of the duplicate test that lets missing identifiers through.
SkipSeenOnly(isbn, seen) == isbn \in seen

\* `if not isbn or isbn in self.seen_isbns: continue` (line 118).
Skip(isbn, seen) == isbn = NoIsbn \/ isbn \in seen

\* The inner loop over category["books"] (lines 115-138);
\* st = [seen, buf, count] is (seen_isbns, library_data, count_new).
RECURSIVE ProcessBooks(_, _, _, _)
ProcessBooks(books, list_name, current_date, st) ==
    IF books = << >> THEN st
    ELSE LET isbn == Head(books) IN
         IF Skip(isbn, st.seen)
         THEN ProcessBooks(Tail(books), list_name, current_date, st)
         ELSE ProcessBooks(Tail(books), list_name, current_date,
                  [seen  |-> st.seen \cup {isbn},
                   buf   |-> Append(st.buf, Entry(isbn, list_name, current_date)),
                   count |-> st.count + 1])

\* The outer loop over results["lists"] (lines 113-114).
RECURSIVE ProcessLists(_, _, _)
ProcessLists(lists, current_date, st) ==
    IF lists = << >> THEN st
    ELSE ProcessLists(Tail(lists), current_date,
             ProcessBooks(Head(lists).books, Head(lists).list_name, current_date, st))

\* process_week(data): the new cache, the new buffer, count_new, and the
\* previous_published_date it returns.
ProcessWeek(page, seen, buf) ==
    LET st == ProcessLists(page.lists, page.bestsellers_date,
                           [seen |-> seen, buf |-> buf, count |-> 0])
    IN  [seen |-> st.seen, buf |-> st.buf, count |-> st.count,
         previous_date |-> page.previous_published_date]

\* ----------------------------------------------------------- save_to_csv
\* The lines save_to_csv has to write: the header row when the file did not
\* exist (lines 153, 159-160), then one line per buffered record (line 161).
LinesToWrite(s, buf) == (IF s.exists THEN 0 ELSE 1) + Len(buf)

\* A variant that opens with mode 'w' although the file exists.
WrittenTruncating(s, buf, n) ==
    IF s.exists
    THEN [s EXCEPT !.rows = SubSeq(buf, 1, n)]
    ELSE [exists |-> TRUE, header |-> (n >= 1), rows |-> SubSeq(buf, 1, n - 1)]

\* The file after open(OUTPUT_FILE, mode) succeeded and the first n of those
\* lines reached it: mode 'a' keeps the content, mode 'w' creates the file.
Written(s, buf, n) ==
    IF s.exists
    THEN [s EXCEPT !.rows = @ \o SubSeq(buf, 1, n)]
    ELSE [exists |-> TRUE, header |-> (n >= 1), rows |-> SubSeq(buf, 1, n - 1)]

\* A variant that empties the buffer whether or not the write succeeded.
BufferClearedAlways(buf, ok) == << >>

\* library_data after save_to_csv: `self.library_data = []` (line 163) is
\* inside the try block, after the write; the except clause leaves it alone.
BufferAfterSave(buf, ok) == IF ok THEN << >> ELSE buf

\* ------------------------------------------------------------- the process
\* The values of a process that has not been constructed yet.
NotStarted ==
    /\ pc = "start"
    /\ max_weeks = 0
    /\ seen_isbns = {}
    /\ library_data = << >>
    /\ is_running = TRUE
    /\ resume_date = NoDate
    /\ next_date = NoDate
    /\ weeks_processed = 0
    /\ data = EmptyData
    /\ count_new = 0
    /\ load_result = "none"
    /\ hydrated = {}
    /\ cursors = << >>
    /\ outcome = "none"
    /\ failures = 0
    /\ got404 = FALSE
    /\ interrupted = FALSE
    /\ processed = << >>
    /\ extracted = << >>
    /\ stop_reason = "none"
    /\ save_result = "none"
    /\ late_fetch = FALSE

\* OUTPUT_FILE before the first process: absent, or present and empty (the
\* state load_state reports as "Database file exists but is empty", line 67,
\* and the state a first save_to_csv leaves when its write fails).
InitialStores == { NoFile, [exists |-> TRUE, header |-> FALSE, rows |-> << >>] }

Init ==
    /\ store \in InitialStores
    /\ run_no = 0
    /\ flushed = {}
    /\ exit_statuses = << >>
    /\ NotStarted

\* LibraryBuilder(api_key, max_weeks): __init__ with load_state() inside.
Construct(weeks, fails, k) ==
    /\ pc = "start"
    /\ run_no < MaxRuns
    /\ LET st == LoadState(store, fails, k) IN
       /\ seen_isbns' = st.seen
       /\ resume_date' = st.resume
       /\ load_result' = st.result
       /\ hydrated' = st.seen
    /\ max_weeks' = weeks
    /\ library_data' = << >>
    /\ is_running' = TRUE
    /\ run_no' = run_no + 1
    /\ pc' = "run"
    /\ UNCHANGED << store, next_date, weeks_processed, data, count_new, cursors,
                    outcome, failures, got404, interrupted, processed, extracted,
                    stop_reason, save_result, flushed >>
    /\ UNCHANGED << late_fetch, exit_statuses >>

\* A variant that always starts from the most recent page.
FirstCursorMostRecent(resume) == NoDate

\* The cursor run() starts from (lines 172-177).
FirstCursor(resume) == IF resume # NoDate THEN resume ELSE NoDate

\* run(), up to the while loop (lines 168-179).
RunStart ==
    /\ pc = "run"
    /\ next_date' = FirstCursor(resume_date)
    /\ weeks_processed' = 0
    /\ pc' = "loop"
    /\ UNCHANGED << store, max_weeks, seen_isbns, library_data, is_running,
                    resume_date, data, count_new, run_no, load_result, hydrated,
                    cursors, outcome, failures, got404, interrupted, processed,
                    extracted, stop_reason, save_result, flushed >>
    /\ UNCHANGED << late_fetch, exit_statuses >>

\* A variant that tests the budget only.
LoopConditionIgnoringFlag(running, weeks, budget) == weeks < budget

\* A variant that allows one page more than the budget.
LoopConditionInclusive(running, weeks, budget) == running /\ weeks <= budget

\* A variant that stops one page short of the budget.
LoopConditionOffByOne(running, weeks, budget) == running /\ weeks + 1 < budget

\* `while self.is_running and weeks_processed < self.max_weeks` (line 181).
LoopCondition(running, weeks, budget) == running /\ weeks < budget

\* Why the loop condition failed: the flag is tested first.
ExitReason ==
    IF ~is_running
    THEN (IF got404 THEN "upstream-exhausted" ELSE "cancelled")
    ELSE "depth-exhausted"

\* The test at the top of the while loop (line 181).
LoopTest ==
    /\ pc = "loop"
    /\ IF LoopCondition(is_running, weeks_processed, max_weeks)
       THEN /\ pc' = "fetch"
            /\ UNCHANGED stop_reason
       ELSE /\ pc' = "save"
            /\ stop_reason' = ExitReason
    /\ UNCHANGED << store, max_weeks, seen_isbns, library_data, is_running,
                    resume_date, next_date, weeks_processed, data, count_new,
                    run_no, load_result, hydrated, cursors, outcome, failures,
                    got404, interrupted, processed, extracted, save_result, flushed >>
    /\ UNCHANGED << late_fetch, exit_statuses >>

\* A variant that treats 404 like any other HTTP error.
RunningAfterFetchIgnoring404(result, running) == running

\* self.is_running after the request: only the 404 branch clears it
\* (lines 93-95).
RunningAfterFetch(result, running) ==
    IF result = "not_found" THEN FALSE ELSE running

\* The classified results of one request (lines 83-101).
FetchResults == { "page", "undated_page", "non_200", "rate_limited", "not_found",
                  "http_error", "network_error" }

\* fetch_overview(next_date) (line 182, lines 76-101).
FetchOverview(result) ==
    /\ pc = "fetch"
    /\ result \in FetchResults
    /\ result \notin {"page", "undated_page", "not_found"} => failures < MaxRetries
    /\ result = "page" => Upstream(next_date).has_data
    /\ data' = CASE result = "page"       -> Upstream(next_date)
                 [] result = "undated_page" -> PageUndated
                 [] OTHER                 -> EmptyData
    /\ is_running' = RunningAfterFetch(result, is_running)
    /\ got404' = (got404 \/ result = "not_found")
    /\ failures' = IF result \in {"page", "undated_page", "not_found"}
                   THEN failures ELSE failures + 1
    /\ cursors' = Append(cursors, next_date)
    /\ outcome' = result
    /\ pc' = "check"
    /\ UNCHANGED << store, max_weeks, seen_isbns, library_data, resume_date,
                    next_date, weeks_processed, count_new, run_no, load_result,
                    hydrated, interrupted, processed, extracted, stop_reason,
                    save_result, flushed >>
    /\ late_fetch' = (late_fetch \/ ~is_running)
    /\ UNCHANGED exit_statuses

\* A variant in which a fetch without data uses up one unit of the budget.
WeeksAfterRetryCounted(weeks) == weeks + 1

\* weeks_processed after an iteration without data: `continue` (line 186)
\* skips the increment of line 200.
WeeksAfterRetry(weeks) == weeks

\* A variant in which `continue` goes to the next fetch without the test of
\* the while condition.
AfterContinueRefetch == "fetch"

\* Where `continue` leads: to the test of the while condition (lines 186,
\* 181).
AfterContinue == "loop"

\* `if not data: time.sleep(10); continue` (lines 184-186).
NoData ==
    /\ pc = "check"
    /\ ~data.has_data
    /\ pc' = AfterContinue
    /\ outcome' = "none"
    /\ weeks_processed' = WeeksAfterRetry(weeks_processed)
    /\ UNCHANGED << store, max_weeks, seen_isbns, library_data, is_running,
                    resume_date, next_date, data, count_new,
                    run_no, load_result, hydrated, cursors, failures,
                    got404, interrupted, processed, extracted, stop_reason,
                    save_result, flushed >>
    /\ UNCHANGED << late_fetch, exit_statuses >>

\* A variant that takes the page's own date as the next cursor.
NextCursorOwnDate(page, current) == page.bestsellers_date

\* `next_date = prev_pointer` (lines 189, 199).
NextCursor(page, current) == page.previous_published_date

\* A variant without the test for the end of the chain.
StopsAtOriginNever(cursor) == FALSE

\* `if not next_date: ... break` (lines 202-204).
StopsAtOrigin(cursor) == cursor = NoDate

\* A variant in which the end of the chain returns from run() at once.
AfterBreakReturn == "done"

\* Where `break` leads: to the statement after the loop, save_to_csv()
\* (lines 204, 209).
AfterBreak == "save"

\* The rest of the loop body for a page (lines 189-207).
ProcessPage ==
    /\ pc = "check"
    /\ data.has_data
    /\ LET r == ProcessWeek(data, seen_isbns, library_data) IN
       /\ seen_isbns' = r.seen
       /\ library_data' = r.buf
       /\ count_new' = r.count
       /\ extracted' = extracted \o SubSeq(r.buf, Len(library_data) + 1, Len(r.buf))
    /\ next_date' = NextCursor(data, next_date)
    /\ weeks_processed' = weeks_processed + 1
    /\ processed' = Append(processed, data)
    /\ outcome' = "none"
    /\ IF StopsAtOrigin(next_date')
       THEN /\ pc' = AfterBreak
            /\ stop_reason' = "no-more-pages"
       ELSE /\ pc' = "loop"
            /\ UNCHANGED stop_reason
    /\ UNCHANGED << store, max_weeks, is_running, resume_date, data, run_no,
                    load_result, hydrated, cursors, failures, got404,
                    interrupted, save_result, flushed >>
    /\ UNCHANGED << late_fetch, exit_statuses >>

\* A variant without the early return on an empty buffer.
NothingToSaveNever(buf) == FALSE

\* `if not self.library_data: ... return` (lines 144-146).
NothingToSave(buf) == buf = << >>

\* save_to_csv() (line 209, lines 143-165).  fail = "open": open() raised;
\* fail = "write": a write raised after n of the lines reached the file.
SaveToCsv(fail, n) ==
    /\ pc = "save"
    /\ IF NothingToSave(library_data)
       THEN /\ fail = "none" /\ n = 0
            /\ save_result' = "noop"
            /\ flushed' = flushed \cup { processed[i] : i \in 1..Len(processed) }
            /\ UNCHANGED << store, library_data >>
       ELSE CASE fail = "none" ->
                 /\ n = LinesToWrite(store, library_data)
                 /\ store' = Written(store, library_data, n)
                 /\ library_data' = BufferAfterSave(library_data, TRUE)
                 /\ save_result' = "ok"
                 /\ flushed' = flushed \cup { processed[i] : i \in 1..Len(processed) }
              [] fail = "open" ->
                 /\ n = 0
                 /\ library_data' = BufferAfterSave(library_data, FALSE)
                 /\ save_result' = "failed"
                 /\ UNCHANGED << store, flushed >>
              [] OTHER ->
                 /\ n \in 0..(LinesToWrite(store, library_data) - 1)
                 /\ store' = Written(store, library_data, n)
                 /\ library_data' = BufferAfterSave(library_data, FALSE)
                 /\ save_result' = "failed"
                 /\ UNCHANGED flushed
    /\ pc' = "done"
    /\ UNCHANGED << max_weeks, seen_isbns, is_running, resume_date, next_date,
                    weeks_processed, data, count_new, run_no, load_result,
                    hydrated, cursors, outcome, failures, got404, interrupted,
                    processed, extracted, stop_reason >>
    /\ UNCHANGED << late_fetch, exit_statuses >>

\* handle_exit(signum, frame): the SIGINT handler (lines 72-74), installed at
\* the end of __init__ (line 38).
HandleExit ==
    /\ pc \in {"run", "loop", "fetch", "check", "save"}
    /\ is_running
    /\ is_running' = FALSE
    /\ interrupted' = TRUE
    /\ UNCHANGED << store, pc, max_weeks, seen_isbns, library_data, resume_date,
                    next_date, weeks_processed, data, count_new, run_no,
                    load_result, hydrated, cursors, outcome, failures, got404,
                    processed, extracted, stop_reason, save_result, flushed >>
    /\ UNCHANGED << late_fetch, exit_statuses >>

\* The status the process ends with: builder.run() is the last statement
\* (line 219) and nothing calls sys.exit, so the interpreter ends with 0
\* whatever stopped the loop and however load_state ended.
ExitStatus(reason, loaded) == 0

\* The process ends after run() returned (line 219); only the file remains.
ProcessExit ==
    /\ pc = "done"
    /\ pc' = "start"
    /\ max_weeks' = 0
    /\ seen_isbns' = {}
    /\ library_data' = << >>
    /\ is_running' = TRUE
    /\ resume_date' = NoDate
    /\ next_date' = NoDate
    /\ weeks_processed' = 0
    /\ data' = EmptyData
    /\ count_new' = 0
    /\ load_result' = "none"
    /\ hydrated' = {}
    /\ cursors' = << >>
    /\ outcome' = "none"
    /\ failures' = 0
    /\ got404' = FALSE
    /\ interrupted' = FALSE
    /\ processed' = << >>
    /\ extracted' = << >>
    /\ stop_reason' = "none"
    /\ save_result' = "none"
    /\ late_fetch' = FALSE
    /\ exit_statuses' = Append(exit_statuses, ExitStatus(stop_reason, load_result))
    /\ UNCHANGED << store, run_no, flushed >>

Next ==
    \/ \E weeks \in (-1)..MaxDepth, fails \in BOOLEAN, k \in 0..Len(DictRows(store)) :
          /\ ~fails => k = 0
          /\ Construct(weeks, fails, k)
    \/ RunStart
    \/ LoopTest
    \/ \E result \in FetchResults : FetchOverview(result)
    \/ NoData
    \/ ProcessPage
    \/ \E fail \in {"none", "open", "write"}, n \in 0..LinesToWrite(store, library_data) :
          SaveToCsv(fail, n)
    \/ HandleExit
    \/ ProcessExit

Spec == Init /\ [][Next]_vars

\* ------------------------------------------- a persistently failing upstream
\* The results of a request to an upstream that serves no page: the
\* branches of fetch_overview that return {} (lines 86-87, 89-101).
StallResults == { "non_200", "rate_limited", "not_found", "http_error", "network_error" }

\* fetch_overview(next_date) against that upstream.  Nothing in the code
\* counts the attempts: `failures` stops at MaxRetries and `cursors` keeps
\* one entry per run of equal cursors, so that the endless retry is a cycle
\* of states.
FetchStalled(result) ==
    /\ pc = "fetch"
    /\ result \in StallResults
    /\ data' = EmptyData
    /\ is_running' = RunningAfterFetch(result, is_running)
    /\ got404' = (got404 \/ result = "not_found")
    /\ failures' = IF result = "not_found" \/ failures >= MaxRetries
                   THEN failures ELSE failures + 1
    /\ cursors' = IF cursors # << >> /\ cursors[Len(cursors)] = next_date
                  THEN cursors ELSE Append(cursors, next_date)
    /\ outcome' = result
    /\ pc' = "check"
    /\ late_fetch' = (late_fetch \/ ~is_running)
    /\ UNCHANGED << store, max_weeks, seen_isbns, library_data, resume_date,
                    next_date, weeks_processed, count_new, run_no, load_result,
                    hydrated, interrupted, processed, extracted, stop_reason,
                    save_result, flushed, exit_statuses >>

\* The steps of the process itself once constructed: every call it makes
\* (the request, the sleeps, the write) returns.
EngineStep ==
    \/ RunStart
    \/ LoopTest
    \/ \E result \in StallResults : FetchStalled(result)
    \/ NoData
    \/ \E fail \in {"none", "open", "write"}, n \in 0..LinesToWrite(store, library_data) :
          SaveToCsv(fail, n)

NextStall ==
    \/ \E weeks \in (-1)..MaxDepth, fails \in BOOLEAN, k \in 0..Len(DictRows(store)) :
          /\ ~fails => k = 0
          /\ Construct(weeks, fails, k)
    \/ EngineStep
    \/ HandleExit
    \/ ProcessExit

\* The process under the scheduler: a constructed engine keeps taking its
\* steps; the interrupt and the start of a process are up to the user.
StallSpec == Init /\ [][NextStall]_vars /\ WF_vars(EngineStep)

\* ================================================================ claims
\* Helpers of the claims.
Range(seq) == { seq[i] : i \in 1..Len(seq) }

IsbnsOf(seq) == { seq[i].isbn13 : i \in 1..Len(seq) }

NoDuplicateIsbn(seq) ==
    \A i, j \in 1..Len(seq) : i # j => seq[i].isbn13 # seq[j].isbn13

PageIsbns(page) ==
    UNION { Range(page.lists[i].books) : i \in 1..Len(page.lists) } \ { NoIsbn }

Live == pc \in {"run", "loop", "fetch", "check", "save"}

StopReasons == { "depth-exhausted", "no-more-pages", "cancelled", "upstream-exhausted" }

\* ---------------------------------------------------------------- C1
\* C1 (dedup invariant): in every reachable state the data lines of the
\* persisted file followed by the pending buffer hold each isbn13 at most
\* once.
C1_DedupInvariant == NoDuplicateIsbn(store.rows \o library_data)

\* ---------------------------------------------------------------- C2
\* C2 as stated (flush on exit): whenever run() has returned, the buffer is
\* empty and every record extracted in this run is a line of the file.
C2_FlushOnExit ==
    pc = "done" =>
        /\ library_data = << >>
        /\ Range(extracted) \subseteq Range(store.rows)

\* C2 as amended: whenever run() has returned it stopped for one of the four
\* reasons and save_to_csv was called; if the write did not fail the buffer
\* is empty and every record extracted in this run is a line of the file; if
\* the write failed the buffer still holds exactly the records extracted in
\* this run.
C2_FlushOnExitUnlessWriteFails ==
    pc = "done" =>
        /\ stop_reason \in StopReasons
        /\ save_result \in {"noop", "ok", "failed"}
        /\ save_result # "failed" =>
              /\ library_data = << >>
              /\ Range(extracted) \subseteq Range(store.rows)
        /\ save_result = "failed" =>
              /\ library_data = extracted
              /\ extracted # << >>

\* A cancelled run that extracted two records and flushed them.
C2_Witness ==
    /\ pc = "done"
    /\ stop_reason = "cancelled"
    /\ save_result = "ok"
    /\ Len(extracted) = 2
    /\ library_data = << >>

\* ---------------------------------------------------------------- C3
\* A page is replayed when it was already handed to process_week in this
\* run, or when it was processed by an earlier run whose flush succeeded and
\* load_state of this run put its identifiers back into the cache.
Replayed(page) ==
    \/ page \in Range(processed)
    \/ /\ page \in flushed
       /\ PageIsbns(page) \subseteq hydrated

\* C3 (idempotent resume): every process_week step on a replayed page appends
\* nothing to the buffer (count_new = 0) and leaves the identifier cache
\* unchanged.
C3_IdempotentReplay ==
    [][ (pc = "check" /\ data.has_data /\ pc' # "check" /\ Replayed(data)) =>
            /\ library_data' = library_data
            /\ seen_isbns' = seen_isbns
            /\ count_new' = 0 ]_vars

\* The second run resumed at the page the first run flushed, and
\* process_week found nothing new on it.
C3_Witness ==
    /\ run_no = 2
    /\ load_result = "ok"
    /\ Len(processed) = 1
    /\ processed[1] \in flushed
    /\ PageIsbns(processed[1]) # {}
    /\ PageIsbns(processed[1]) \subseteq hydrated
    /\ count_new = 0
    /\ library_data = << >>
    /\ pc = "loop"

\* ---------------------------------------------------------------- C4
\* Chronological order of cursors; the absent cursor is the most recent date.
CursorLe(a, b) == b = NoDate \/ (a # NoDate /\ a <= b)

IsOldestDate(d, rows) ==
    LET dated == { rows[i].first_seen_date : i \in 1..Len(rows) } \ { NoDate }
    IN  IF dated = {} THEN d = NoDate
        ELSE d \in dated /\ \A e \in dated : d <= e

C6_EndToEndChain ==
    ( /\ pc = "done"
      /\ run_no = 1
      /\ max_weeks = 3
      /\ failures = 0 /\ ~got404 /\ ~interrupted
      /\ PageUndated \notin Range(processed)
      /\ save_result # "failed" )
    =>
    ( /\ processed = << PageP0, PageP1, PageP2 >>
      /\ stop_reason = "no-more-pages"
      /\ Len(store.rows) = 3
      /\ IsbnsOf(store.rows) = {"A", "B", "C"}
      /\ weeks_processed = 3
      /\ library_data = << >> )

\* The end of that run.
C6_Witness ==
    /\ pc = "done"
    /\ run_no = 1
    /\ max_weeks = 3
    /\ failures = 0 /\ ~got404 /\ ~interrupted
    /\ processed = << PageP0, PageP1, PageP2 >>
    /\ cursors = << NoDate, 2, 1 >>
    /\ save_result = "ok"
    /\ Len(store.rows) = 3

\* ---------------------------------------------------------------- C7
\* C7 (NotFound is terminal): once a fetch got a 404 the running flag is
\* false and stays false, no further fetch is issued and weeks_processed does
\* not change for the rest of the run, the 404 fetch itself included; and a
\* run on a missing file whose first fetch got a 404 ends with reason
\* upstream-exhausted, its flush writes nothing and the file still does not
\* exist.
C7_NotFoundTerminal ==
    /\ [](got404 => ~is_running)
    /\ [][ (~got404 /\ got404') => weeks_processed' = weeks_processed ]_vars
    /\ [][ (got404 /\ pc # "done") =>
              /\ got404'
              /\ cursors' = cursors
              /\ weeks_processed' = weeks_processed
              /\ pc' \in {"check", "loop", "save", "done"} ]_vars
    /\ []( (pc = "done" /\ got404 /\ Len(cursors) = 1 /\ load_result = "missing") =>
              /\ stop_reason = "upstream-exhausted"
              /\ save_result = "noop"
              /\ weeks_processed = 0
              /\ store = NoFile )

\* A run on a missing file whose first fetch got a 404 has returned.
C7_Witness ==
    /\ pc = "done"
    /\ got404
    /\ Len(cursors) = 1
    /\ load_result = "missing"
    /\ stop_reason = "upstream-exhausted"
    /\ store = NoFile

\* ---------------------------------------------------------------- C8
\* C8 (flush is all-or-nothing): a call of save_to_csv with a non-empty
\* buffer either appends every buffered record to the file and empties the
\* buffer, or adds no record to the file and leaves the buffer as it was.
C8_FlushAllOrNothing ==
    [][ (pc = "save" /\ pc' = "done" /\ library_data # << >>) =>
            \/ /\ store'.rows = store.rows \o library_data
               /\ library_data' = << >>
            \/ /\ store'.rows = store.rows
               /\ library_data' = library_data ]_vars

\* ---------------------------------------------------------------- C9
\* The entries of the pages in traversal order: page, then list, then book.
RECURSIVE BooksEntries(_, _, _)
BooksEntries(books, list_name, date) ==
    IF books = << >> THEN << >>
    ELSE << Entry(Head(books), list_name, date) >> \o BooksEntries(Tail(books), list_name, date)

RECURSIVE ListsEntries(_, _)
ListsEntries(lists, date) ==
    IF lists = << >> THEN << >>
    ELSE BooksEntries(Head(lists).books, Head(lists).list_name, date)
            \o ListsEntries(Tail(lists), date)

RECURSIVE PagesEntries(_)
PagesEntries(pages) ==
    IF pages = << >> THEN << >>
    ELSE ListsEntries(Head(pages).lists, Head(pages).bestsellers_date)
            \o PagesEntries(Tail(pages))

\* The entries that are the first of their identifier and not known before.
FirstSeen(entries, known) ==
    LET keep == { i \in 1..Len(entries) :
                    /\ entries[i].isbn13 # NoIsbn
                    /\ entries[i].isbn13 \notin known
                    /\ \A j \in 1..(i - 1) : entries[j].isbn13 # entries[i].isbn13 }
        F[i \in 0..Len(entries)] ==
            IF i = 0 THEN << >>
            ELSE IF i \in keep THEN Append(F[i - 1], entries[i]) ELSE F[i - 1]
    IN  F[Len(entries)]

IsPrefix(a, b) == Len(a) <= Len(b) /\ SubSeq(b, 1, Len(a)) = a

\* C9 (append-only store in arrival order): no step removes or changes a
\* data line of the file or its header row; the header row is written only
\* by a step that creates the file; and a successful flush appends, after
\* the previous content, the records of the run in the order page, list,
\* book.
C9_AppendOnlyArrivalOrder ==
    [][ /\ IsPrefix(store.rows, store'.rows)
        /\ store.exists => (store'.exists /\ store'.header = store.header)
        /\ (store'.header /\ ~store.header) => ~store.exists
        /\ (pc = "save" /\ save_result' = "ok") =>
              /\ library_data # << >>
              /\ store'.rows = store.rows \o FirstSeen(PagesEntries(processed), hydrated) ]_vars

\* A second run appended the records of two pages after the line of the
\* first run.
C9_Witness ==
    /\ pc = "done"
    /\ run_no = 2
    /\ save_result = "ok"
    /\ store.header
    /\ Len(store.rows) = 4
    /\ store.rows[1].isbn13 = "D"
    /\ store.rows[2] = Entry("A", "fiction", 3)
    /\ store.rows[3] = Entry("B", "fiction", 3)
    /\ store.rows[4] = Entry("C", "nonfiction", 2)

RunClass(reason, loaded) ==
    IF loaded = "failed" THEN "failed-to-initialize"
    ELSE IF reason \in {"depth-exhausted", "no-more-pages"} THEN "full-pass"
    ELSE "stopped-early"

\* C11 (exit status distinguishes outcomes): the status a process ends with
\* is different from the status of every run of another outcome class.
C11_ExitStatusDistinguishesOutcomes ==
    [][ (pc = "done" /\ pc' = "start") =>
            \A r \in StopReasons, l \in {"missing", "ok", "failed"} :
                RunClass(r, l) # RunClass(stop_reason, load_result)
                    => ExitStatus(r, l) # exit_statuses'[Len(exit_statuses')] ]_vars

\* ---------------------------------------------------------------- C12
\* The fetch results that are retried: 429, a non-200 status or another
\* HTTP error, a network failure.
Retryable == { "non_200", "rate_limited", "http_error", "network_error" }

\* C12 (retry leaves traversal state unchanged): a fetch with a retryable
\* result, and the rest of its iteration, change neither the cursor nor the
\* pages-processed count, the identifier cache, the buffer or the file, and
\* lead back to the loop test; the cursor changes only when a page is
\* processed (or a run starts or ends), so the next fetch passes the same
\* cursor.
C12_RetryLeavesStateUnchanged ==
    /\ [][ (pc = "fetch" /\ pc' = "check" /\ outcome' \in Retryable) =>
              /\ cursors' = Append(cursors, next_date)
              /\ ~data'.has_data
              /\ UNCHANGED << next_date, weeks_processed, seen_isbns, library_data, store >> ]_vars
    /\ [][ (pc = "check" /\ outcome \in Retryable /\ pc' # "check") =>
              /\ pc' = "loop"
              /\ UNCHANGED << next_date, weeks_processed, seen_isbns, library_data, store,
                              cursors, processed >> ]_vars
    /\ [][ next_date' # next_date =>
              \/ pc = "check" /\ data.has_data
              \/ pc \in {"run", "done"} ]_vars
    /\ [][ (pc = "fetch" /\ pc' = "check") => cursors' = Append(cursors, next_date) ]_vars

\* After one page was processed a fetch failed and the next fetch passed the
\* same cursor, with the buffer and the count as they were.
C12_Witness ==
    /\ pc = "check"
    /\ failures = 1
    /\ Len(cursors) = 3
    /\ cursors[2] = cursors[3]
    /\ outcome = "page"
    /\ weeks_processed = 1
    /\ Len(processed) = 1
    /\ library_data = extracted
    /\ Len(library_data) = 2

\* ---------------------------------------------------------------- C13
\* The step that hands a fetched page to process_week and finishes the
\* iteration.
PageStep == pc = "check" /\ data.has_data /\ pc' # "check"

\* run() has assigned its count of pages processed (line 179).
Counting == pc \in {"loop", "fetch", "check", "save", "done"}

\* The step that issues a request.
FetchStep == pc = "fetch" /\ pc' = "check"

\* C13 (depth budget, as stated): the count of pages processed grows by
\* exactly 1 per page handed to process_week whatever it yielded, never
\* exceeds max_weeks, no fetch is issued once it equals max_weeks, and with
\* max_weeks <= 0 the run issues no fetch and stops as depth-exhausted.
C13_DepthBudget ==
    /\ [][ PageStep => weeks_processed' = weeks_processed + 1 ]_vars
    /\ [](Counting => weeks_processed = Len(processed))
    /\ [](Counting => weeks_processed <= max_weeks)
    /\ [][ FetchStep => weeks_processed # max_weeks ]_vars
    /\ []((pc \in {"save", "done"} /\ max_weeks <= 0) =>
              cursors = << >> /\ stop_reason = "depth-exhausted")

\* C13 (depth budget, amended): the count grows by exactly 1 per page handed
\* to process_week whatever it yielded and equals the number of pages
\* processed; it never exceeds a budget that is not negative and stays 0
\* under a budget <= 0; a fetch is issued only while the count is below the
\* budget; with max_weeks <= 0 the run issues no fetch and its first loop
\* test stops it, as cancelled when an interrupt cleared the flag before
\* that test and as depth-exhausted otherwise.
C13_DepthBudgetUnlessInterrupted ==
    /\ [][ PageStep => weeks_processed' = weeks_processed + 1 ]_vars
    /\ [](Counting => weeks_processed = Len(processed))
    /\ [](Counting /\ max_weeks >= 0 => weeks_processed <= max_weeks)
    /\ [](Counting /\ max_weeks <= 0 => weeks_processed = 0)
    /\ [][ FetchStep => weeks_processed < max_weeks ]_vars
    /\ []((pc \in {"save", "done"} /\ max_weeks <= 0) => cursors = << >>)
    /\ [][ (pc = "loop" /\ pc' # "loop" /\ max_weeks <= 0) =>
              /\ pc' = "save"
              /\ stop_reason' = IF is_running THEN "depth-exhausted" ELSE "cancelled" ]_vars

\* A run that used up a budget of one page on a page without new records.
C13_Witness ==
    /\ pc = "save"
    /\ stop_reason = "depth-exhausted"
    /\ max_weeks = 1
    /\ weeks_processed = 1
    /\ Len(processed) = 1
    /\ count_new = 0
    /\ library_data = << >>
    /\ next_date # NoDate

\* ---------------------------------------------------------------- C14
\* C14 (cooperative cancellation): an interrupt changes nothing but the
\* running flag; the fetch about to be issued is still issued and the page
\* it returns is processed in full (records extracted, cursor advanced,
\* depth consumed) although the flag is false; at most one fetch starts
\* after the flag became false; the next loop test stops the engine and
\* save_to_csv runs next.
C14_CooperativeCancellation ==
    /\ [][ (~interrupted /\ interrupted') =>
              /\ is_running /\ ~is_running'
              /\ UNCHANGED << pc, store, max_weeks, seen_isbns, library_data,
                              resume_date, next_date, weeks_processed, data,
                              cursors, processed, extracted, stop_reason,
                              save_result >> ]_vars
    /\ [][ (pc = "fetch" /\ pc' # "fetch") => pc' = "check" ]_vars
    /\ [][ (pc = "check" /\ data.has_data /\ pc' # "check") =>
              /\ processed' = Append(processed, data)
              /\ seen_isbns' = seen_isbns \cup PageIsbns(data)
              /\ IsbnsOf(library_data') = IsbnsOf(library_data) \cup (PageIsbns(data) \ seen_isbns)
              /\ next_date' = data.previous_published_date
              /\ weeks_processed' = weeks_processed + 1 ]_vars
    /\ [][ FetchStep => ~late_fetch ]_vars
    /\ [][ (pc = "loop" /\ ~is_running /\ pc' # "loop") =>
              /\ pc' = "save"
              /\ stop_reason' \in {"cancelled", "upstream-exhausted"} ]_vars
    /\ [][ (pc = "save" /\ pc' # "save") => pc' = "done" /\ save_result' # "none" ]_vars

\* An interrupt arrived before a fetch; the fetch was issued, its page was
\* processed, and the run then stopped as cancelled, within its budget and
\* with pages left, and wrote the page's records.
C14_Witness ==
    /\ pc = "done"
    /\ interrupted
    /\ late_fetch
    /\ stop_reason = "cancelled"
    /\ Len(processed) = 1
    /\ weeks_processed = 1
    /\ max_weeks > 1
    /\ next_date # NoDate
    /\ save_result = "ok"
    /\ extracted # << >>

\* ---------------------------------------------------------------- C15
\* C15 (single flush per run): save_to_csv is invoked exactly once in every
\* run, after the engine stopped: every run ends through it, it is entered
\* only with a stop reason, and it is not entered again; the file changes
\* in no other step, and while the engine is running every record
\* extracted in the run is in the buffer.
C15_SingleFlushPerRun ==
    /\ [][ store' # store =>
              pc = "save" /\ pc' = "done" /\ stop_reason \in StopReasons ]_vars
    /\ [][ (pc' = "save" /\ pc # "save") =>
              pc \in {"loop", "check"} /\ stop_reason' \in StopReasons ]_vars
    /\ [][ (pc' = "done" /\ pc # "done") => pc = "save" /\ save_result' # "none" ]_vars
    /\ [][ (pc = "save" /\ pc' # "save") => pc' = "done" ]_vars
    /\ [][ (pc = "done" /\ pc' # "done") => pc' = "start" ]_vars
    /\ [](pc \in {"run", "loop", "fetch", "check", "save"} => save_result = "none")
    /\ [](pc \in {"loop", "fetch", "check", "save"} => library_data = extracted)

\* A run from no file that stopped on its budget after two pages and wrote
\* the records of both in its one flush.
C15_Witness ==
    /\ pc = "done"
    /\ load_result = "missing"
    /\ stop_reason = "depth-exhausted"
    /\ max_weeks = 2
    /\ Len(processed) = 2
    /\ save_result = "ok"
    /\ store.exists
    /\ Len(store.rows) = 3
    /\ run_no = 1

\* ---------------------------------------------------------------- C16
\* C16 (flush on an empty buffer is a no-op): save_to_csv with an empty
\* buffer leaves the file as it is, and a file that did not exist is not
\* created; the call cannot fail and the buffer stays empty.
C16_EmptyFlushIsNoOp ==
    [][ (pc = "save" /\ library_data = << >> /\ pc' # "save") =>
            /\ pc' = "done"
            /\ store' = store
            /\ (~store.exists => store' = NoFile)
            /\ library_data' = << >>
            /\ save_result' = "noop" ]_vars

\* A run without a file whose only request met 404: save_to_csv had nothing
\* to write and there is still no file.
C16_Witness ==
    /\ pc = "done"
    /\ save_result = "noop"
    /\ store = NoFile
    /\ got404
    /\ Len(cursors) = 1
    /\ stop_reason = "upstream-exhausted"

\* ---------------------------------------------------------------- C17
HasDatedRow(rows) == \E i \in 1..Len(rows) : rows[i].first_seen_date # NoDate

\* What the first page of a run goes through: the extraction rule against
\* the cache load_state built, one unit of depth, the cursor moved to the
\* page's previous date.
FirstPageProcessed ==
    (PageStep /\ processed = << >>) =>
        /\ seen_isbns = hydrated
        /\ seen_isbns' = hydrated \cup PageIsbns(data)
        /\ IsbnsOf(library_data') = PageIsbns(data) \ hydrated
        /\ weeks_processed' = 1
        /\ next_date' = data.previous_published_date

C18_FirstObservationWins ==
    /\ [](NoIsbn \notin IsbnsOf(library_data) \cup IsbnsOf(store.rows))
    /\ [](pc \in {"loop", "fetch", "check", "save"} =>
              library_data = FirstSeen(PagesEntries(processed), hydrated))
    /\ [][ PageStep =>
              /\ IsbnsOf(library_data') \ IsbnsOf(library_data) = PageIsbns(data) \ seen_isbns
              /\ Len(library_data') = Len(library_data)
                                        + Cardinality(PageIsbns(data) \ seen_isbns)
              /\ count_new' = Cardinality(PageIsbns(data) \ seen_isbns) ]_vars
    /\ [][ (pc \in {"loop", "fetch", "check"}) => IsPrefix(library_data, library_data') ]_vars
    /\ [][ (\A i \in 1..Len(store.rows) :
              i <= Len(store'.rows) /\ store'.rows[i] = store.rows[i]) ]_vars

\* Three pages were processed; B met again on the second page and A met
\* again on the third, next to an entry without identifier, left the
\* records of their first entries as they were.
C18_Witness ==
    /\ pc = "save"
    /\ hydrated = {}
    /\ processed = << PageP0, PageP1, PageP2 >>
    /\ library_data = << Entry("A", "fiction", 3), Entry("B", "fiction", 3),
                         Entry("C", "nonfiction", 2) >>
    /\ seen_isbns = { "A", "B", "C" }

\* ---------------------------------------------------------------- C19
\* C19 (origin stops the walk): processing a page without previous date
\* ends the loop at once, with reason no-more-pages, whatever is left of
\* the budget and whatever the running flag; the cursor is absent at a
\* fetch only while no page has been processed in the run.
C19_OriginStopsWalk ==
    /\ [][ (PageStep /\ data.previous_published_date = NoDate) =>
              /\ pc' = "save"
              /\ stop_reason' = "no-more-pages"
              /\ next_date' = NoDate ]_vars
    /\ [][ (FetchStep /\ next_date = NoDate) => processed = << >> ]_vars
    /\ []((pc \in {"loop", "fetch", "check"} /\ processed # << >>) => next_date # NoDate)
    /\ [](stop_reason = "no-more-pages" =>
              /\ processed # << >>
              /\ processed[Len(processed)].previous_published_date = NoDate)

\* A resumed run reached the first page of the chain with a unit of budget
\* left and the running flag still true, and stopped there.
C19_Witness ==
    /\ pc = "done"
    /\ stop_reason = "no-more-pages"
    /\ is_running
    /\ ~interrupted
    /\ max_weeks = 3
    /\ weeks_processed = 2
    /\ processed = << PageP1, PageP2 >>
    /\ cursors = << 2, 1 >>

\* ---------------------------------------------------------------- C20
\* The engine is in its loop, between the start of run() and save_to_csv.
InLoop == pc \in {"loop", "fetch", "check"}

\* C20 (cancellation ends a retry stall): against an upstream every
\* request to which fails, once the running flag is false the engine leaves
\* its loop, calls save_to_csv and returns; while the flag is true and the
\* budget is positive every step keeps it in the loop with the same cursor
\* and the same count, and it goes on to issue the next request: it leaves
\* the loop only after an interrupt or a 404 cleared the flag.
C20_CancellationEndsRetryStall ==
    /\ (Live /\ ~is_running) ~> (pc = "done")
    /\ [][ (InLoop /\ max_weeks > 0 /\ is_running') =>
              /\ InLoop'
              /\ next_date' = next_date
              /\ weeks_processed' = weeks_processed
              /\ processed' = << >> ]_vars
    /\ (pc = "check" /\ max_weeks > 0) ~> (pc = "fetch" \/ ~is_running)
    /\ []((pc \in {"save", "done"} /\ max_weeks > 0) =>
              /\ ~is_running
              /\ interrupted \/ got404
              /\ stop_reason \in {"cancelled", "upstream-exhausted"})

\* After requests that failed, with no page processed, an interrupt ended
\* the stall: the run stopped as cancelled and returned.
C20_Witness ==
    /\ pc = "done"
    /\ interrupted
    /\ ~got404
    /\ max_weeks > 0
    /\ failures = MaxRetries
    /\ cursors # << >>
    /\ processed = << >>
    /\ stop_reason = "cancelled"
    /\ save_result = "noop"

====
